---- MODULE Spec2Model ----
(***************************************************************************)
(* A model of src/main.py: the four FastAPI handlers get_lst,              *)
(* get_street_view, get_hybrid_map and calculate_teg_plan, the two output  *)
(* directories they write to, and the Python float arithmetic (IEEE-754    *)
(* binary64 products and quotients, round(x, n), str(x)) their responses   *)
(* and file names are computed with.                                       *)
(***************************************************************************)
EXTENDS Integers, Sequences, FiniteSets, TLC

(***************************************************************************)
(* Natural numbers of arbitrary size, as little-endian sequences of limbs  *)
(* in base 2^LimbBits with no leading zero limb (<<>> is 0).  A binary64   *)
(* mantissa has 53 bits and a product of two has 106, more than a machine  *)
(* integer holds, so the float operations below are carried out on these.  *)
(***************************************************************************)
LimbBits == 15

RECURSIVE Pow(_, _)
Pow(base, k) == IF k = 0 THEN 1 ELSE base * Pow(base, k - 1)

Base == Pow(2, LimbBits)

RECURSIVE BitsOf(_)
BitsOf(n) == IF n = 0 THEN <<>> ELSE <<n % Base>> \o BitsOf(n \div Base)

\* only for values that fit a machine integer
RECURSIVE NatOf(_)
NatOf(b) == IF b = <<>> THEN 0 ELSE b[1] + Base * NatOf(Tail(b))

RECURSIVE Trim(_)
Trim(b) ==
    IF b = <<>> THEN <<>>
    ELSE IF b[Len(b)] = 0 THEN Trim(SubSeq(b, 1, Len(b) - 1))
    ELSE b

Zeros(k) == [i \in 1..k |-> 0]

RECURSIVE SmallLen(_)
SmallLen(n) == IF n = 0 THEN 0 ELSE 1 + SmallLen(n \div 2)

\* the number of bits of b
BitLen(b) == IF b = <<>> THEN 0 ELSE LimbBits * (Len(b) - 1) + SmallLen(b[Len(b)])

\* b * c + carry, for a multiplier c <= Base
RECURSIVE MulSmallC(_, _, _)
MulSmallC(b, c, carry) ==
    IF b = <<>> THEN BitsOf(carry)
    ELSE LET t == b[1] * c + carry
         IN  <<t % Base>> \o MulSmallC(Tail(b), c, t \div Base)

MulSmall(b, c) == Trim(MulSmallC(b, c, 0))

RECURSIVE AddC(_, _, _)
AddC(a, b, carry) ==
    IF a = <<>> /\ b = <<>> THEN BitsOf(carry)
    ELSE LET x == IF a = <<>> THEN 0 ELSE a[1]
             y == IF b = <<>> THEN 0 ELSE b[1]
             t == x + y + carry
         IN  <<t % Base>> \o AddC(IF a = <<>> THEN <<>> ELSE Tail(a),
                                  IF b = <<>> THEN <<>> ELSE Tail(b), t \div Base)

Add(a, b) == Trim(AddC(a, b, 0))

ShiftLimbs(b, k) == IF b = <<>> THEN <<>> ELSE Zeros(k) \o b

\* a * b, limb by limb
RECURSIVE Mul(_, _)
Mul(a, b) ==
    IF b = <<>> \/ a = <<>> THEN <<>>
    ELSE Add(MulSmall(a, b[1]), ShiftLimbs(Mul(a, Tail(b)), 1))

\* Long division of b by a divisor d <= 2 * Base, from the top limb down:
\* [q |-> quotient, r |-> remainder].
RECURSIVE DivSmallR(_, _, _)
DivSmallR(b, d, i) ==
    IF i = 0 THEN [q |-> <<>>, r |-> 0]
    ELSE LET hi  == DivSmallR(b, d, i - 1)
             cur == Base * hi.r + b[Len(b) - i + 1]
         IN  [q |-> <<cur \div d>> \o hi.q, r |-> cur % d]

DivSmall(b, d) ==
    LET res == DivSmallR(b, d, Len(b)) IN [q |-> Trim(res.q), r |-> res.r]

\* b * 2^k
ShiftLeft(b, k) ==
    ShiftLimbs(MulSmall(b, Pow(2, k % LimbBits)), k \div LimbBits)

\* floor(b / 2^k)
ShiftRight(b, k) ==
    IF k \div LimbBits >= Len(b) THEN <<>>
    ELSE DivSmall(SubSeq(b, k \div LimbBits + 1, Len(b)), Pow(2, k % LimbBits)).q

\* b mod 2^k
LowBits(b, k) ==
    IF k \div LimbBits >= Len(b) THEN b
    ELSE Trim(SubSeq(b, 1, k \div LimbBits)
              \o <<b[k \div LimbBits + 1] % Pow(2, k % LimbBits)>>)

\* 2^k
Pow2(k) == ShiftLeft(<<1>>, k)

IsOdd(b) == b # <<>> /\ b[1] % 2 = 1

(***************************************************************************)
(* Python floats.  A binary64 value is [neg, m, e], standing for           *)
(* (-1)^neg * m * 2^e with m a 53-bit mantissa (top bit set), or m = <<>>  *)
(* for a zero.  The handlers' values stay far from the subnormal and       *)
(* overflow ranges, so the exponent is unbounded here.                     *)
(***************************************************************************)
MantissaBits == 53

GuardBits == 64

Float(neg, m, e) == [neg |-> neg, m |-> m, e |-> e]

FZero == Float(FALSE, <<>>, 0)

\* kept + 1 or kept: the quotient of a division by 2^t rounded to nearest,
\* ties to even, from the remainder low (and a non-zero fraction below it
\* when sticky)
RoundNearestEven(kept, low, t, sticky) ==
    IF BitLen(low) = t /\ (low # Pow2(t - 1) \/ sticky \/ IsOdd(kept))
    THEN Add(kept, <<1>>)
    ELSE kept

\* a rounded mantissa that has carried into a 54th bit is halved
Normalize(neg, k1, e) ==
    IF BitLen(k1) > MantissaBits
    THEN Float(neg, ShiftRight(k1, 1), e + 1)
    ELSE Float(neg, k1, e)

\* The binary64 value nearest to n * 2^e (+ a non-zero fraction of the last
\* bit when sticky), ties to even: IEEE-754 round-to-nearest-even.  A sticky
\* caller supplies at least MantissaBits + 2 bits.
RoundBits(neg, n, e, sticky) ==
    IF n = <<>> THEN Float(neg, <<>>, 0)
    ELSE IF BitLen(n) <= MantissaBits
    THEN Float(neg, ShiftLeft(n, MantissaBits - BitLen(n)),
               e - (MantissaBits - BitLen(n)))
    ELSE Normalize(neg,
                   RoundNearestEven(ShiftRight(n, BitLen(n) - MantissaBits),
                                    LowBits(n, BitLen(n) - MantissaBits),
                                    BitLen(n) - MantissaBits, sticky),
                   e + BitLen(n) - MantissaBits)

\* float(n) for an int n
FromInt(n) == RoundBits(n < 0, BitsOf(IF n < 0 THEN 0 - n ELSE n), 0, FALSE)

\* a * b
FMul(a, b) == RoundBits(a.neg # b.neg, Mul(a.m, b.m), a.e + b.e, FALSE)

\* b * 10^k, four digits at a time (10^4 <= Base)
RECURSIVE MulPow10(_, _)
MulPow10(b, k) ==
    IF k <= 4 THEN MulSmall(b, Pow(10, k))
    ELSE MulSmall(MulPow10(b, k - 4), Pow(10, 4))

\* b / 10^k, four digits at a time:
\* [q |-> quotient, s |-> whether a remainder was dropped]
RECURSIVE DivPow10(_, _)
DivPow10(b, k) ==
    IF k <= 4
    THEN LET one == DivSmall(b, Pow(10, k)) IN [q |-> one.q, s |-> one.r # 0]
    ELSE LET rest == DivPow10(b, k - 4)
             one  == DivSmall(rest.q, Pow(10, 4))
         IN  [q |-> one.q, s |-> rest.s \/ one.r # 0]

\* the float nearest to a quotient res of DivPow10, scaled by 2^e
RoundQuotient(neg, res, e) == RoundBits(neg, res.q, e, res.s)

\* a / 10^k, correctly rounded (a / 1000, a / 1_000_000)
FDivPow10(a, k) ==
    RoundQuotient(a.neg, DivPow10(ShiftLeft(a.m, GuardBits + 4 * k), k),
                  a.e - (GuardBits + 4 * k))

\* The float nearest to (-1)^neg * r / 10^nd, r a natural in limbs: what
\* reading the decimal digits gives (strtod, a JSON number, a literal)
DecToDouble(neg, r, nd) ==
    RoundQuotient(neg, DivPow10(ShiftLeft(r, GuardBits + 4 * nd), nd),
                  0 - (GuardBits + 4 * nd))

\* The float a decimal literal n / 10^k denotes (n an int)
FromDecimal(n, k) == DecToDouble(n < 0, BitsOf(IF n < 0 THEN 0 - n ELSE n), k)

\* n * 2^e rounded to an integer, ties to even
RoundScaled(n, e) ==
    IF e >= 0 THEN ShiftLeft(n, e)
    ELSE RoundNearestEven(ShiftRight(n, 0 - e), LowBits(n, 0 - e), 0 - e, FALSE)

\* |x| * 10^nd rounded to an integer, ties to even, on the exact value of x
RoundDec(x, nd) == RoundScaled(MulPow10(x.m, nd), x.e)

\* round(x, nd): x is printed correctly rounded to nd places and read back
PyRound(x, nd) == DecToDouble(x.neg, RoundDec(x, nd), nd)

\* bool(x) of a float: false for 0.0 and -0.0
Truthy(x) == x.m # <<>>

\* The decimal digits of a natural, most significant first
RECURSIVE DigitsOf(_)
DigitsOf(b) ==
    IF b = <<>> THEN <<>>
    ELSE LET one == DivSmall(b, 10) IN Append(DigitsOf(one.q), one.r)

\* A Python str is a sequence of one-character strings here, so that
\* str.replace can be carried out; Join gives the string itself.
RECURSIVE Join(_)
Join(cs) == IF cs = <<>> THEN "" ELSE cs[1] \o Join(Tail(cs))

DigitChars(ds) == [i \in 1..Len(ds) |-> ToString(ds[i])]

\* s.replace(old, new) for one-character old and new
Replace(cs, old, new) == [i \in 1..Len(cs) |-> IF cs[i] = old THEN new ELSE cs[i]]

\* repr gives at most 17 significant digits
MaxReprDigits == 17

\* The least number of decimals (>= 1) whose correctly rounded digits read
\* back as x: the shortest round-tripping representation
RECURSIVE ReprPlaces(_, _)
ReprPlaces(x, nd) ==
    IF nd >= 2 * MaxReprDigits \/ DecToDouble(x.neg, RoundDec(x, nd), nd) = x
    THEN nd
    ELSE ReprPlaces(x, nd + 1)

\* d.ddde-XX from the significant digits ds and the exponent ex
PyExponential(sign, ds, ex) ==
    sign \o <<ToString(ds[1])>>
         \o (IF Len(ds) > 1 THEN <<".">> \o DigitChars(Tail(ds)) ELSE <<>>)
         \o <<"e", "-">> \o (IF ex < 10 THEN <<"0">> ELSE <<>>)
         \o <<ToString(ex)>>

\* positional notation from the digits pad, the last nd of them decimals
PyPositional(sign, pad, nd) ==
    sign \o DigitChars(SubSeq(pad, 1, Len(pad) - nd)) \o <<".">>
         \o DigitChars(SubSeq(pad, Len(pad) - nd + 1, Len(pad)))

\* ds: the digits of |x| * 10^nd
PyStrDigits(sign, ds, nd) ==
    IF ds # <<>> /\ nd + 1 - Len(ds) > 4
    THEN PyExponential(sign, ds, nd + 1 - Len(ds))
    ELSE PyPositional(sign,
             Zeros(IF Len(ds) < nd + 1 THEN nd + 1 - Len(ds) ELSE 0) \o ds, nd)

PyStrPlaces(x, nd) ==
    PyStrDigits(IF x.neg THEN <<"-">> ELSE <<>>, DigitsOf(RoundDec(x, nd)), nd)

\* str(x) and repr(x), for zeros and for |x| < 1e16: positional notation
\* from 1e-4 up, d.ddde-XX below.
PyStr(x) == PyStrPlaces(x, ReprPlaces(x, 1))

\* f"{x}" of a float
PyRepr(x) == Join(PyStr(x))

(***************************************************************************)
(* POST /calculate_teg_plan/ (src/main.py 179-210)                         *)
(***************************************************************************)
CO2_PER_KWH_KG == FromDecimal(7, 1)

CARBON_CREDIT_PER_KG == FDivPow10(FromInt(1), 3)

TARIFF_MIN == FromDecimal(218, 3)

\* the tariff with two digits exchanged
TARIFF_MAX_Swapped == FromDecimal(517, 3)

TARIFF_MAX == FromDecimal(571, 3)

\* data: [num_tegs: Int, energy_per_module_wh: float, cost_per_module_rm: float]
calculate_teg_plan(data) ==
    LET total_energy_wh  == FMul(FromInt(data.num_tegs), data.energy_per_module_wh)
        total_energy_kwh == FDivPow10(total_energy_wh, 3)
        co2_saved_kg     == FMul(total_energy_kwh, CO2_PER_KWH_KG)
        carbon_credits   == FMul(co2_saved_kg, CARBON_CREDIT_PER_KG)
        min_savings_rm   == FMul(total_energy_kwh, TARIFF_MIN)
        max_savings_rm   == FMul(total_energy_kwh, TARIFF_MAX)
    IN  [k \in {"Total Energy Generated (Wh/day)", "Total Energy (kWh/day)",
                "Number of TEG Modules", "CO2 Saved (kg/day)",
                "Carbon Credits Earned per Day",
                "Daily Energy Cost Savings (RM Range)"} |->
            CASE k = "Total Energy Generated (Wh/day)" -> total_energy_wh
              [] k = "Total Energy (kWh/day)" -> PyRound(total_energy_kwh, 3)
              [] k = "Number of TEG Modules" -> data.num_tegs
              [] k = "CO2 Saved (kg/day)" -> PyRound(co2_saved_kg, 3)
              [] k = "Carbon Credits Earned per Day" -> PyRound(carbon_credits, 4)
              [] k = "Daily Energy Cost Savings (RM Range)" ->
                    "RM " \o PyRepr(PyRound(min_savings_rm, 2))
                          \o " - RM " \o PyRepr(PyRound(max_savings_rm, 2))]

(***************************************************************************)
(* The request inputs and the answers of the remote services               *)
(***************************************************************************)
\* at most MaxReq requests arrive in a run
MaxReq == 2

\* the wall clock is read during the seconds 0..MaxTime
MaxTime == 1

\* requests being handled at the same time: one slot each
Slots == {1, 2}

None == [none |-> TRUE]

\* The (lat, lon) / (lat, lng) bodies that are posted.  The two differ in
\* the seventh decimal of the latitude only.
Coords ==
    << [lat |-> FromDecimal(-338568, 4),    lon |-> FromDecimal(1512093, 4)],
       [lat |-> FromDecimal(-338568004, 7), lon |-> FromDecimal(1512093, 4)] >>

\* lst_collection.size().getInfo()
Sizes == {0, 2}

\* reduceRegion(...).getInfo().get("LST_Day_1km"): absent, or degrees Celsius
LstSamples == {None, FZero, FromDecimal(25374, 3)}

\* ....get("surface_solar_radiation_downwards_sum"): absent, or J/m^2
SradSamples == {None, FZero, FromDecimal(182345678, 1)}

\* status codes of the image GETs
Statuses == {200, 404}

\* the body of the response to request id's image GET
Body(id) == "image-bytes-" \o ToString(id)

\* the URL getThumbURL returns to request id
ThumbUrl(id) == "https://earthengine.googleapis.com/thumbnails/" \o ToString(id)

(***************************************************************************)
(* File names and URLs                                                     *)
(***************************************************************************)
SAVE_DIR == "static/maps"

OUTPUT_DIR == "outputs"

\* the key is a literal of the source; only its place in the URL matters
GOOGLE_MAPS_API_KEY == "API_KEY"

\* os.path.join(dir, filename)
PathJoin(dir, filename) == dir \o "/" \o filename

\* datetime.now().strftime('%Y%m%d%H%M%S') at second t of the run
Timestamp(t) == "202501010000" \o (IF t < 10 THEN "0" ELSE "") \o ToString(t)

\* f"lst_{round(lat, 6)}_{round(lon, 6)}_{...}.png"
LstFilename(c, t) ==
    "lst_" \o PyRepr(PyRound(c.lat, 6)) \o "_" \o PyRepr(PyRound(c.lon, 6))
           \o "_" \o Timestamp(t) \o ".png"

\* f"streetview_{str(loc.lat).replace('.','_')}_{str(loc.lng).replace('.','_')}.jpg"
StreetViewFilename(c) ==
    "streetview_" \o Join(Replace(PyStr(c.lat), ".", "_")) \o "_"
                  \o Join(Replace(PyStr(c.lon), ".", "_")) \o ".jpg"

\* f"hybridmap_{...}_{...}.jpg"
HybridFilename(c) ==
    "hybridmap_" \o Join(Replace(PyStr(c.lat), ".", "_")) \o "_"
                 \o Join(Replace(PyStr(c.lon), ".", "_")) \o ".jpg"

StreetViewUrl(c) ==
    "https://maps.googleapis.com/maps/api/streetview" \o "?size=600x400"
        \o "&location=" \o PyRepr(c.lat) \o "," \o PyRepr(c.lon)
        \o "&heading=90&pitch=0" \o "&key=" \o GOOGLE_MAPS_API_KEY

HybridUrl(c) ==
    "https://maps.googleapis.com/maps/api/staticmap"
        \o "?center=" \o PyRepr(c.lat) \o "," \o PyRepr(c.lon)
        \o "&zoom=18" \o "&size=640x640" \o "&scale=2" \o "&maptype=hybrid"
        \o "&markers=color:red%7Clabel:%7C" \o PyRepr(c.lat) \o "," \o PyRepr(c.lon)
        \o "&key=" \o GOOGLE_MAPS_API_KEY

\* The names and URLs of every posted body, computed once
LstPaths ==
    [i \in DOMAIN Coords |->
        [t \in 0..MaxTime |-> PathJoin(OUTPUT_DIR, LstFilename(Coords[i], t))]]

MapPaths ==
    [k \in {"streetview", "hybrid_map"} |->
        [i \in DOMAIN Coords |->
            PathJoin(SAVE_DIR, IF k = "streetview" THEN StreetViewFilename(Coords[i])
                               ELSE HybridFilename(Coords[i]))]]

MapUrls ==
    [k \in {"streetview", "hybrid_map"} |->
        [i \in DOMAIN Coords |->
            IF k = "streetview" THEN StreetViewUrl(Coords[i]) ELSE HybridUrl(Coords[i])]]

(***************************************************************************)
(* The state                                                               *)
(***************************************************************************)
VARIABLES
    reqs,       \* slot -> the request handled there: its position and locals
    files,      \* path -> contents: the files under outputs/ and static/maps/
    now,        \* the latest second read from the wall clock
    arrivals,   \* how many requests have arrived
    plan        \* the last /calculate_teg_plan/ exchange

vars == <<reqs, files, now, arrivals, plan>>

\* calls: the remote calls a get_lst request has issued, in order;
\* wrote: whether the request has opened a file for writing.
Idle ==
    [kind |-> "idle", id |-> 0, data |-> 0, pc |-> "idle", size |-> 0, t |-> 0,
     path |-> "", url |-> "", lst_value |-> None, srad_value |-> None,
     status |-> 0, content |-> "", resp |-> None, calls |-> <<>>, wrote |-> FALSE]

NoFiles == [p \in {} |-> ""]

Init ==
    /\ reqs = [s \in Slots |-> Idle]
    /\ files = NoFiles
    /\ now = 0
    /\ arrivals = 0
    /\ plan = None

\* open(path, "wb"): the file exists and is empty
OpenWb(fs, path) == [p \in DOMAIN fs \cup {path} |-> IF p = path THEN "" ELSE fs[p]]

\* A write that leaves the file just written as the only one
WriteBytesAlone(fs, path, content) == [p \in {path} |-> content]

\* f.write(content), then the with block closes the file
WriteBytes(fs, path, content) ==
    [p \in DOMAIN fs \cup {path} |-> IF p = path THEN content ELSE fs[p]]

\* A request for `kind` with body Coords[i] arrives and is given the first
\* slot that is free (one whose request has been answered is free again).
Arrive(s, kind, i) ==
    /\ arrivals < MaxReq
    /\ reqs[s].pc \in {"idle", "done"}
    /\ \A s2 \in Slots : s2 < s => reqs[s2].pc \notin {"idle", "done"}
    /\ arrivals' = arrivals + 1
    /\ reqs' = [reqs EXCEPT ![s] =
                  [Idle EXCEPT !.kind = kind, !.id = arrivals + 1, !.data = i,
                               !.pc = "start"]]
    /\ UNCHANGED <<files, now, plan>>

(***************************************************************************)
(* POST /get_lst/ (src/main.py 37-126).  The handler is a plain def, which *)
(* runs in a worker thread: its steps interleave with every other          *)
(* request's.  A step is the code up to and including a blocking call.     *)
(***************************************************************************)
NoDataError == [error |-> "No valid LST data available for this location/date range."]

\* The guard as it would be if an empty collection were let through
NoDataNever(size) == size < 0

\* if lst_collection.size().getInfo() == 0
NoData(size) == size = 0

\* lines 39-54
TemperatureQuery(s) ==
    /\ reqs[s].kind = "get_lst" /\ reqs[s].pc = "start"
    /\ \E size \in Sizes :
          reqs' = [reqs EXCEPT ![s] =
                     [@ EXCEPT !.size = size,
                               !.calls = Append(@, "temperature_query"),
                               !.pc = IF NoData(size) THEN "done" ELSE "radiation_query",
                               !.resp = IF NoData(size) THEN NoDataError ELSE None]]
    /\ UNCHANGED <<files, now, arrivals, plan>>

\* An order that samples the rasters before the thumbnail is rendered
LstNextPcSamplesFirst(pc) ==
    CASE pc = "radiation_query"  -> "lst_sample"
      [] pc = "lst_sample"       -> "srad_sample"
      [] pc = "srad_sample"      -> "thumbnail_render"
      [] pc = "thumbnail_render" -> "image_download"
      [] pc = "image_download"   -> "open"

\* The order of the steps after the temperature query
LstNextPc(pc) ==
    CASE pc = "radiation_query"  -> "thumbnail_render"
      [] pc = "thumbnail_render" -> "lst_sample"
      [] pc = "lst_sample"       -> "srad_sample"
      [] pc = "srad_sample"      -> "image_download"
      [] pc = "image_download"   -> "open"

\* lines 56-72
RadiationQuery(s) ==
    /\ reqs[s].kind = "get_lst" /\ reqs[s].pc = "radiation_query"
    /\ reqs' = [reqs EXCEPT ![s] =
                  [@ EXCEPT !.calls = Append(@, "radiation_query"),
                            !.pc = LstNextPc("radiation_query")]]
    /\ UNCHANGED <<files, now, arrivals, plan>>

\* lines 74-94: the file name is made from the clock, then getThumbURL.
\* datetime.now() gives a second t no earlier than the last one read.
ThumbnailRender(s) ==
    /\ reqs[s].kind = "get_lst" /\ reqs[s].pc = "thumbnail_render"
    /\ \E t \in now..MaxTime :
          /\ now' = t
          /\ reqs' = [reqs EXCEPT ![s] =
                        [@ EXCEPT !.t = t,
                                  !.path = LstPaths[reqs[s].data][t],
                                  !.url = ThumbUrl(reqs[s].id),
                                  !.calls = Append(@, "thumbnail_render"),
                                  !.pc = LstNextPc("thumbnail_render")]]
    /\ UNCHANGED <<files, arrivals, plan>>

\* lines 97-101, 110
LstSample(s) ==
    /\ reqs[s].kind = "get_lst" /\ reqs[s].pc = "lst_sample"
    /\ \E v \in LstSamples :
          reqs' = [reqs EXCEPT ![s] =
                     [@ EXCEPT !.lst_value = v,
                               !.calls = Append(@, "lst_sample"),
                               !.pc = LstNextPc("lst_sample")]]
    /\ UNCHANGED <<files, now, arrivals, plan>>

\* lines 103-107, 111
SradSample(s) ==
    /\ reqs[s].kind = "get_lst" /\ reqs[s].pc = "srad_sample"
    /\ \E v \in SradSamples :
          reqs' = [reqs EXCEPT ![s] =
                     [@ EXCEPT !.srad_value = v,
                               !.calls = Append(@, "srad_sample"),
                               !.pc = LstNextPc("srad_sample")]]
    /\ UNCHANGED <<files, now, arrivals, plan>>

\* if response.status_code == 200
LstStatusOk(status) == status = 200

\* The error body without the upstream status
LstFetchErrorNoStatus(status) == [error |-> "Failed to fetch image"]

\* {"error": "Failed to fetch image", "status": response.status_code}
LstFetchError(status) == [error |-> "Failed to fetch image", status |-> status]

\* lines 114-115, 125-126
ImageDownload(s) ==
    /\ reqs[s].kind = "get_lst" /\ reqs[s].pc = "image_download"
    /\ \E status \in Statuses :
          reqs' = [reqs EXCEPT ![s] =
                     [@ EXCEPT !.status = status,
                               !.content = Body(reqs[s].id),
                               !.calls = Append(@, "image_download"),
                               !.pc = IF LstStatusOk(status)
                                      THEN LstNextPc("image_download") ELSE "done",
                               !.resp = IF LstStatusOk(status) THEN None
                                        ELSE LstFetchError(status)]]
    /\ UNCHANGED <<files, now, arrivals, plan>>

\* line 116
LstOpen(s) ==
    /\ reqs[s].kind = "get_lst" /\ reqs[s].pc = "open"
    /\ files' = OpenWb(files, reqs[s].path)
    /\ reqs' = [reqs EXCEPT ![s] = [@ EXCEPT !.wrote = TRUE, !.pc = "write"]]
    /\ UNCHANGED <<now, arrivals, plan>>

\* line 117
LstWrite(s) ==
    /\ reqs[s].kind = "get_lst" /\ reqs[s].pc = "write"
    /\ files' = WriteBytes(files, reqs[s].path, reqs[s].content)
    /\ reqs' = [reqs EXCEPT ![s] = [@ EXCEPT !.pc = "return"]]
    /\ UNCHANGED <<now, arrivals, plan>>

\* round(lst_celsius, 2) if lst_celsius else None
LstField(v) == IF v # None /\ Truthy(v) THEN PyRound(v, 2) ELSE None

\* round(solar_radiation / 1_000_000, 2) if solar_radiation else None
SolarField(v) == IF v # None /\ Truthy(v) THEN PyRound(FDivPow10(v, 6), 2) ELSE None

LstFields == [v \in LstSamples |-> LstField(v)]

SolarFields == [v \in SradSamples |-> SolarField(v)]

\* A body that reports the two scalars only when both are there
LstSuccessBothOrNeither(r) ==
    LET both == LstFields[r.lst_value] # None /\ SolarFields[r.srad_value] # None
    IN  [message |-> "LST image saved.", path |-> r.path, url |-> r.url,
         lst |-> IF both THEN LstFields[r.lst_value] ELSE None,
         solar_radiation |-> IF both THEN SolarFields[r.srad_value] ELSE None]

\* lines 118-124
LstSuccess(r) ==
    [message |-> "LST image saved.", path |-> r.path, url |-> r.url,
     lst |-> LstFields[r.lst_value],
     solar_radiation |-> SolarFields[r.srad_value]]

LstReturn(s) ==
    /\ reqs[s].kind = "get_lst" /\ reqs[s].pc = "return"
    /\ reqs' = [reqs EXCEPT ![s] = [@ EXCEPT !.resp = LstSuccess(reqs[s]), !.pc = "done"]]
    /\ UNCHANGED <<files, now, arrivals, plan>>

(***************************************************************************)
(* POST /streetview and POST /hybrid_map (src/main.py 129-175).  Both are  *)
(* async def: they run on the event loop and give way only at the awaited  *)
(* GET, so everything after it is one step.                                *)
(***************************************************************************)
MapKinds == {"streetview", "hybrid_map"}

\* lines 131-141, 154-166: the URL is built and the GET awaited
MapGet(s) ==
    /\ reqs[s].kind \in MapKinds /\ reqs[s].pc = "start"
    /\ reqs' = [reqs EXCEPT ![s] =
                  [@ EXCEPT !.url = MapUrls[reqs[s].kind][reqs[s].data], !.pc = "await_get"]]
    /\ UNCHANGED <<files, now, arrivals, plan>>

\* The check as it would be if only server errors counted as failures
MapFetchFailedOn5xx(status) == status >= 500

\* if response.status_code != 200
MapFetchFailed(status) == status # 200

\* {"error": "Could not fetch Street View image"}
StreetViewError(status) == [error |-> "Could not fetch Street View image"]

\* {"error": "Could not fetch satellite image"}
HybridError(status) == [error |-> "Could not fetch satellite image"]

MapSuccess(kind, path) ==
    IF kind = "streetview"
    THEN [message |-> "Street View image saved", file_path |-> path]
    ELSE [message |-> "Hybrid satellite image saved", file_path |-> path]

\* A path that no two requests share: the request's number is part of it
MapPathPerRequest(r) == MapPaths[r.kind][r.data] \o "." \o ToString(r.id)

\* filepath = os.path.join(SAVE_DIR, filename) of map request r
MapPath(r) == MapPaths[r.kind][r.data]

\* lines 142-150, 167-175: the response arrives and the handler runs to its end
MapResume(s) ==
    /\ reqs[s].kind \in MapKinds /\ reqs[s].pc = "await_get"
    /\ \E status \in Statuses :
          LET r    == reqs[s]
              path == MapPath(r)
          IN  IF MapFetchFailed(status)
              THEN /\ reqs' = [reqs EXCEPT ![s] =
                                 [@ EXCEPT !.status = status, !.content = Body(r.id),
                                           !.pc = "done",
                                           !.resp = IF r.kind = "streetview"
                                                    THEN StreetViewError(status)
                                                    ELSE HybridError(status)]]
                   /\ UNCHANGED files
              ELSE /\ files' = WriteBytes(OpenWb(files, path), path, Body(r.id))
                   /\ reqs' = [reqs EXCEPT ![s] =
                                 [@ EXCEPT !.status = status, !.content = Body(r.id),
                                           !.path = path, !.wrote = TRUE, !.pc = "done",
                                           !.resp = MapSuccess(r.kind, path)]]
    /\ UNCHANGED <<now, arrivals, plan>>

Next ==
    \/ \E s \in Slots, i \in DOMAIN Coords :
          \/ Arrive(s, "get_lst", i)
          \/ Arrive(s, "streetview", i)
          \/ Arrive(s, "hybrid_map", i)
    \/ \E s \in Slots :
          \/ TemperatureQuery(s)
          \/ RadiationQuery(s)
          \/ ThumbnailRender(s)
          \/ LstSample(s)
          \/ SradSample(s)
          \/ ImageDownload(s)
          \/ LstOpen(s)
          \/ LstWrite(s)
          \/ LstReturn(s)
          \/ MapGet(s)
          \/ MapResume(s)

Spec == Init /\ [][Next]_vars

(***************************************************************************)
(* The calculator on its own: the bodies posted to /calculate_teg_plan/    *)
(* and the exchange each gives.  The handler reads and writes no state.    *)
(***************************************************************************)
TEGInputs ==
    [num_tegs : {-2, 0, 1, 3, 100, 250},
     energy_per_module_wh : {FromDecimal(50, 1), FromDecimal(25, 1), FromDecimal(1, 1),
                             FromDecimal(3, 1), FromDecimal(1234, 2), FromDecimal(5, 3)},
     cost_per_module_rm : {FromDecimal(20, 1), FromDecimal(5, 1), FromDecimal(1999, 2)}]

\* every posted body's response (@@ makes the table an explicit function,
\* computed once)
TegPlans == [d \in TEGInputs |-> calculate_teg_plan(d)] @@ <<>>

CalculateTegPlan(d) ==
    /\ plan' = [data |-> d, resp |-> TegPlans[d]]
    /\ UNCHANGED <<reqs, files, now, arrivals>>

NextCalc == \E d \in TEGInputs : CalculateTegPlan(d)

SpecCalc == Init /\ [][NextCalc]_vars

(***************************************************************************)
(* The claims                                                              *)
(***************************************************************************)
IsPrefix(a, b) == Len(a) <= Len(b) /\ a = SubSeq(b, 1, Len(a))

IsSuccess(resp) == "message" \in DOMAIN resp

\* the path a success body reports
ReportedPath(resp) == IF "path" \in DOMAIN resp THEN resp.path ELSE resp.file_path

\* C1: a /get_lst/ request whose temperature collection has size 0 is
\* answered with exactly the no-data error body, after the temperature query
\* alone, and has opened no file.
C1_NoDataErrorAndNoFile ==
    \A s \in Slots :
        LET r == reqs[s]
        IN  (r.kind = "get_lst" /\ r.calls # <<>> /\ r.size = 0) =>
                /\ r.pc = "done"
                /\ r.resp = [error |->
                      "No valid LST data available for this location/date range."]
                /\ r.calls = <<"temperature_query">>
                /\ ~r.wrote

C1_Witness ==
    \E s \in Slots :
        /\ reqs[s].kind = "get_lst" /\ reqs[s].calls # <<>> /\ reqs[s].size = 0
        /\ reqs[s].pc = "done"

\* C2: a /get_lst/ request whose thumbnail download returned a status other
\* than 200 is answered with an error body whose "status" is that status, and
\* has opened no file.
C2_FetchErrorCarriesStatus ==
    \A s \in Slots :
        LET r == reqs[s]
        IN  (r.kind = "get_lst" /\ Len(r.calls) = 6 /\ r.status # 200) =>
                /\ r.pc = "done"
                /\ DOMAIN r.resp = {"error", "status"}
                /\ r.resp.status = r.status
                /\ ~r.wrote

C2_Witness ==
    \E s \in Slots :
        /\ reqs[s].kind = "get_lst" /\ Len(reqs[s].calls) = 6
        /\ reqs[s].status = 404 /\ reqs[s].pc = "done"

\* C3, as claimed: a /streetview or /hybrid_map request whose GET returned a
\* status other than 200 is answered with an error body that carries that
\* status, and has written no file.
C3_MapErrorCarriesStatus ==
    \A s \in Slots :
        LET r == reqs[s]
        IN  (r.kind \in {"streetview", "hybrid_map"} /\ r.pc = "done"
                /\ r.status # 200) =>
                /\ "error" \in DOMAIN r.resp
                /\ "status" \in DOMAIN r.resp
                /\ r.resp.status = r.status
                /\ ~r.wrote

\* C3, amended: such a request is answered with the endpoint's fixed error
\* body, which has an "error" message and no status, and has written no file.
C3_MapErrorWithoutStatus ==
    \A s \in Slots :
        LET r == reqs[s]
        IN  (r.kind \in {"streetview", "hybrid_map"} /\ r.pc = "done"
                /\ r.status # 200) =>
                /\ r.resp = IF r.kind = "streetview"
                            THEN [error |-> "Could not fetch Street View image"]
                            ELSE [error |-> "Could not fetch satellite image"]
                /\ ~r.wrote

C3_Witness ==
    \E s \in Slots :
        /\ reqs[s].kind = "hybrid_map" /\ reqs[s].pc = "done"
        /\ reqs[s].status = 404

LstSucceeded(r) == r.kind = "get_lst" /\ r.pc = "done" /\ IsSuccess(r.resp)

\* C4, as claimed: in a success body of /get_lst/, lst and solar_radiation
\* are both null or both numbers.
C4_BothNullOrBothNumbers ==
    \A s \in Slots :
        LstSucceeded(reqs[s]) =>
            ((reqs[s].resp.lst = None) <=> (reqs[s].resp.solar_radiation = None))

\* C4, amended: each of the two is null or a number on its own sample alone.
\* lst is null when the temperature sample is absent and a number when it is
\* present and not zero, whatever the radiation sample is; solar_radiation
\* likewise.
C4_EachFieldFollowsItsOwnSample ==
    \A s \in Slots :
        LET r == reqs[s]
        IN  LstSucceeded(r) =>
                /\ r.lst_value = None => r.resp.lst = None
                /\ (r.lst_value # None /\ r.lst_value.m # <<>>) => r.resp.lst # None
                /\ r.srad_value = None => r.resp.solar_radiation = None
                /\ (r.srad_value # None /\ r.srad_value.m # <<>>) =>
                        r.resp.solar_radiation # None

C4_Witness ==
    \E s \in Slots :
        /\ LstSucceeded(reqs[s])
        /\ reqs[s].lst_value = None /\ reqs[s].resp.lst = None
        /\ reqs[s].srad_value # None /\ reqs[s].resp.solar_radiation # None

\* C5: the remote calls of a /get_lst/ request are issued one after another
\* in the order temperature query, radiation query, thumbnail render, the two
\* scalar samples, image download; a request that has reached the download
\* has issued all of them in that order.
C5_CallsInOrder ==
    \A s \in Slots :
        LET r     == reqs[s]
            order == <<"temperature_query", "radiation_query", "thumbnail_render",
                       "lst_sample", "srad_sample", "image_download">>
        IN  r.kind = "get_lst" =>
                /\ IsPrefix(r.calls, order)
                /\ r.status # 0 => r.calls = order

C5_Witness ==
    \E s \in Slots :
        /\ reqs[s].kind = "get_lst" /\ reqs[s].status = 200
        /\ Len(reqs[s].calls) = 6

\* C6, as claimed: a file that has been written is never overwritten or
\* removed.
C6_WrittenFileNeverChanges ==
    [][\A p \in DOMAIN files :
          files[p] # "" => p \in DOMAIN files' /\ files'[p] = files[p]]_vars

\* C6, amended: a file is never removed, and its contents change only in a
\* step of a request that has opened that very path for writing.
C6_NeverRemovedOnlyOverwritten ==
    [][\A p \in DOMAIN files :
          /\ p \in DOMAIN files'
          /\ files'[p] # files[p] =>
                \E s \in Slots : /\ reqs'[s] # reqs[s] \/ reqs'[s].pc = "write"
                                 /\ reqs'[s].wrote
                                 /\ reqs'[s].path = p]_vars

C6_Witness ==
    \E s1, s2 \in Slots :
        /\ s1 # s2
        /\ reqs[s1].pc = "done" /\ IsSuccess(reqs[s1].resp)
        /\ reqs[s2].pc = "done" /\ IsSuccess(reqs[s2].resp)
        /\ reqs[s1].path = reqs[s2].path
        /\ files[reqs[s1].path] = reqs[s2].content

\* C7: when a /streetview (or a /hybrid_map) request succeeds after another
\* request of the same endpoint with the same (lat, lng) has, both report the
\* same path, and the file then holds the later request's bytes and no file
\* holds the earlier one's.
C7_SameCoordinateSamePath ==
    [][\A s, o \in Slots :
          (/\ s # o
           /\ reqs[s].kind \in {"streetview", "hybrid_map"}
           /\ reqs[s].pc = "await_get" /\ reqs'[s].pc = "done"
           /\ IsSuccess(reqs'[s].resp)
           /\ reqs[o].kind = reqs[s].kind /\ reqs[o].data = reqs[s].data
           /\ reqs[o].pc = "done" /\ IsSuccess(reqs[o].resp)) =>
              /\ reqs'[s].resp.file_path = reqs[o].resp.file_path
              /\ files'[reqs'[s].resp.file_path] = reqs'[s].content
              /\ \A p \in DOMAIN files' : files'[p] # reqs[o].content]_vars

C7_Witness ==
    \E s, o \in Slots :
        /\ s # o
        /\ reqs[s].kind = "streetview" /\ reqs[o].kind = "streetview"
        /\ reqs[s].data = reqs[o].data
        /\ reqs[s].pc = "done" /\ IsSuccess(reqs[s].resp)
        /\ reqs[o].pc = "done" /\ IsSuccess(reqs[o].resp)
        /\ reqs[s].id > reqs[o].id
        /\ files[reqs[o].resp.file_path] = reqs[s].content

\* {num_tegs: 100, energy_per_module_wh: 5.0, cost_per_module_rm: 2.0}
C8_Input ==
    [num_tegs |-> 100, energy_per_module_wh |-> FromDecimal(50, 1),
     cost_per_module_rm |-> FromDecimal(20, 1)]

C8_Asked == "data" \in DOMAIN plan /\ plan.data = C8_Input

\* C8, as claimed: for that body the response has 500 Wh, 0.5 kWh, 0.35 kg,
\* 0.00035 credits and the range "RM 0.109 - RM 0.2855".
C8_UnroundedPlan ==
    C8_Asked =>
        /\ plan.resp["Total Energy Generated (Wh/day)"] = FromInt(500)
        /\ plan.resp["Total Energy (kWh/day)"] = FromDecimal(5, 1)
        /\ plan.resp["CO2 Saved (kg/day)"] = FromDecimal(35, 2)
        /\ plan.resp["Carbon Credits Earned per Day"] = FromDecimal(35, 5)
        /\ plan.resp["Daily Energy Cost Savings (RM Range)"] = "RM 0.109 - RM 0.2855"

\* C8, amended: for that body the response has 500 Wh, 0.5 kWh, 0.35 kg,
\* 0.0003 credits (four decimals) and the range "RM 0.11 - RM 0.29" (two
\* decimals).
C8_RoundedPlan ==
    C8_Asked =>
        /\ plan.resp["Total Energy Generated (Wh/day)"] = FromInt(500)
        /\ plan.resp["Total Energy (kWh/day)"] = FromDecimal(5, 1)
        /\ plan.resp["Number of TEG Modules"] = 100
        /\ plan.resp["CO2 Saved (kg/day)"] = FromDecimal(35, 2)
        /\ plan.resp["Carbon Credits Earned per Day"] = FromDecimal(3, 4)
        /\ plan.resp["Daily Energy Cost Savings (RM Range)"] = "RM 0.11 - RM 0.29"

C8_Witness == C8_Asked

\* C9: in the step in which a request is answered with a success body, the
\* path the body reports names a file that exists and holds the bytes that
\* same request fetched.
C9_SuccessFileHoldsOwnBytes ==
    [][\A s \in Slots :
          (reqs[s].pc # "done" /\ reqs'[s].pc = "done" /\ IsSuccess(reqs'[s].resp)) =>
              /\ ReportedPath(reqs'[s].resp) \in DOMAIN files'
              /\ files'[ReportedPath(reqs'[s].resp)] = reqs'[s].content]_vars

\* C10: in a success body of /get_lst/, lst is null exactly when the
\* temperature sample is absent and solar_radiation is null exactly when the
\* radiation sample is absent.
C10_NullExactlyWhenSampleAbsent ==
    \A s \in Slots :
        LET r == reqs[s]
        IN  LstSucceeded(r) =>
                /\ (r.resp.lst = None) <=> (r.lst_value = None)
                /\ (r.resp.solar_radiation = None) <=> (r.srad_value = None)

====
